---- MODULE Spec2Model ----
(***************************************************************************)
(* A model of package consumer (consumer.go): the Consumer struct, its     *)
(* option setters Set / SetMap / SetLogger, and its lifecycle Start /      *)
(* Stop around the go-nsq client.  The go-nsq library is an opaque         *)
(* collaborator: the outcome of each of its calls is an input of the       *)
(* action that makes the call, and every call is recorded in `calls`.      *)
(*                                                                         *)
(* A Go string is a sequence of one-character strings, so that split       *)
(* (strings.FieldsFunc) is computed and not assumed.                       *)
(***************************************************************************)
EXTENDS Integers, Sequences, FiniteSets, TLC

\* ------------------------------------------------------------------ bounds

\* How many clients nsq.NewConsumer may hand out in one behaviour.
MaxClients == 2

\* The largest number of entries of a mapping given to SetMap.
MaxMapSize == 2

\* ------------------------------------------------------------------ values

\* An interface{} value: its dynamic type and the value held.
StrV(s) == [t |-> "string", v |-> s]
IntV(n) == [t |-> "int", v |-> <<n>>]
StrsV(l) == [t |-> "[]string", v |-> l]
BoolV == [t |-> "bool", v |-> <<>>]

\* An error value; NilErr is Go's nil error.
NilErr == [kind |-> "nil", option |-> "", msg |-> ""]

\* The value of `ret` while the last call has returned nothing.
NoRet == [kind |-> "none", option |-> "", msg |-> ""]

\* fmt.Errorf("%q: <msg>", option)
Errorf(option, msg) == [kind |-> "option", option |-> option, msg |-> msg]

\* The error of (*nsq.Config).Set for an option or value it rejects.
ConfigErr(option) == [kind |-> "config", option |-> option, msg |-> "invalid option"]

\* The error of connect() when no address is configured.
MissingTargetErr ==
  [kind |-> "connect", option |-> "",
   msg |-> "at least one nsqd or nsqlookupd address must be specified"]

\* The errors the library returns from NewConsumer and from the two dials.
NewConsumerErr == [kind |-> "nsq", option |-> "", msg |-> "NewConsumer failed"]
NSQDsErr == [kind |-> "nsq", option |-> "", msg |-> "ConnectToNSQDs failed"]
LookupdsErr == [kind |-> "nsq", option |-> "", msg |-> "ConnectToNSQLookupds failed"]

\* ------------------------------------------------------------------ split

\* The separator test of the FieldsFunc callback.
IsSep(r) == r = "," \/ r = " "

\* strings.FieldsFunc(s, IsSep): the maximal runs of non-separator characters.
\* `cur` is the field being read, `acc` the fields already closed.
RECURSIVE FieldsFrom(_, _, _, _)
FieldsFrom(s, i, cur, acc) ==
  IF i > Len(s)
  THEN IF cur = <<>> THEN acc ELSE Append(acc, cur)
  ELSE IF IsSep(s[i])
       THEN FieldsFrom(s, i + 1, <<>>, IF cur = <<>> THEN acc ELSE Append(acc, cur))
       ELSE FieldsFrom(s, i + 1, Append(cur, s[i]), acc)

FieldsFunc(s) == FieldsFrom(s, 1, <<>>, <<>>)

\* A split whose default case returns no error.
splitAcceptsAnything(value) ==
  IF value.t = "[]string" THEN [s |-> value.v, err |-> NilErr]
  ELSE IF value.t = "string" THEN [s |-> FieldsFunc(value.v), err |-> NilErr]
  ELSE [s |-> <<>>, err |-> NilErr]

\* split(value): ([]string, error)
split(value) ==
  IF value.t = "[]string" THEN [s |-> value.v, err |-> NilErr]
  ELSE IF value.t = "string" THEN [s |-> FieldsFunc(value.v), err |-> NilErr]
  ELSE [s |-> <<>>, err |-> [kind |-> "split", option |-> "",
                              msg |-> "expected string or slice of strings"]]

\* ------------------------------------------------------------------ state

VARIABLES
  topic,        \* c.topic
  channel,      \* c.channel
  concurrency,  \* c.concurrency
  nsqds,        \* c.nsqds
  nsqlookupds,  \* c.nsqlookupds
  config,       \* c.config: the options (*nsq.Config).Set accepted
  logger,       \* c.log and c.level, as one pair
  err,          \* c.err
  client,       \* c.client: 0 is nil, n > 0 the n-th client NewConsumer returned
  stopFlag,     \* the client's stop request flag, set by (*nsq.Consumer).Stop
  stopChan,     \* the client's StopChan: "open" or "closed"
  pc,           \* where the caller is: "idle", "Stop_wait" (blocked in Stop), "panic"
  calls,        \* the library calls made by the most recent call on the Consumer
  ret           \* what the most recent call on the Consumer returned

opts == <<topic, channel, concurrency, nsqds, nsqlookupds, config, err>>
lib == <<client, stopFlag, stopChan>>
vars == <<topic, channel, concurrency, nsqds, nsqlookupds, config, logger, err,
          client, stopFlag, stopChan, pc, calls, ret>>

\* The fields of the Consumer that Set reads and writes, as one record.
Fields ==
  [topic |-> topic, channel |-> channel, concurrency |-> concurrency,
   nsqds |-> nsqds, nsqlookupds |-> nsqlookupds, config |-> config, err |-> err]

\* ------------------------------------------------------------------ inputs

\* The topic and channel given to NewConsumer.
Topic0 == <<"t">>
Channel0 == <<"c">>

\* The logger and level NewConsumer installs, and the pair SetLogger is given.
DefaultLogger == [log |-> "stderr", level |-> "info"]
Loggers == {[log |-> "custom", level |-> "debug"]}

\* The options Set itself recognizes.
OwnOptions ==
  {"topic", "channel", "concurrency", "nsqd", "nsqlookupd", "nsqds", "nsqlookupds"}

\* Options that reach (*nsq.Config).Set: one it knows and one it does not.
ConfigOptions == {"max_in_flight", "bogus"}
Options == OwnOptions \cup ConfigOptions

\* The values tried for each option: well-typed ones and wrong-typed ones.
Inputs(option) ==
  CASE option = "topic" -> {StrV(<<"u">>), IntV(0)}
    [] option = "channel" -> {StrV(<<"d">>), StrsV(<<<<"d">>>>)}
    [] option = "concurrency" -> {IntV(-1), IntV(0), IntV(4), StrV(<<"4">>)}
    [] option = "nsqd" -> {StrV(<<"a">>), StrsV(<<<<"a">>>>)}
    [] option = "nsqlookupd" -> {StrV(<<"l">>), BoolV}
    [] option = "nsqds" -> {StrV(<<"a", ",", " ", "b">>), IntV(0)}
    [] option = "nsqlookupds" -> {StrsV(<<<<"m">>, <<"l">>>>), StrV(<<" ", ",">>), BoolV}
    [] option = "max_in_flight" -> {IntV(4)}
    [] option = "bogus" -> {IntV(0)}

\* ------------------------------------------------------------------ Set

\* (*nsq.Config).Set(option, value): the library accepts an integer for
\* max_in_flight and rejects everything else tried here.
ConfigAccepts(option, value) == option = "max_in_flight" /\ value.t = "int"

\* A failing case that keeps an error already recorded.
FailKeepsFirst(c, e) == IF c.err # NilErr THEN c ELSE [c EXCEPT !.err = e]

\* The failing branch of a case of Set: c.err = e; return.
Fail(c, e) == [c EXCEPT !.err = e]

\* A concurrency case that raises a value below 1 to 1.
PutConcurrencyAtLeastOne(c, n) == [c EXCEPT !.concurrency = IF n < 1 THEN 1 ELSE n]

\* c.concurrency = s
PutConcurrency(c, n) == [c EXCEPT !.concurrency = n]

\* An address case that appends to the list it should replace.
PutNSQDsAppends(c, l) == [c EXCEPT !.nsqds = c.nsqds \o l]

\* c.nsqds = l
PutNSQDs(c, l) == [c EXCEPT !.nsqds = l]

\* A discovery case that writes the other list.
PutLookupdsIntoNSQDs(c, l) == [c EXCEPT !.nsqds = l]

\* c.nsqlookupds = l
PutLookupds(c, l) == [c EXCEPT !.nsqlookupds = l]

\* c.Set(option, value) on the fields c: the fields afterwards.
Set(c, option, value) ==
  CASE option = "topic" ->
         IF value.t = "string" THEN [c EXCEPT !.topic = value.v]
         ELSE Fail(c, Errorf(option, "expected string"))
    [] option = "channel" ->
         IF value.t = "string" THEN [c EXCEPT !.channel = value.v]
         ELSE Fail(c, Errorf(option, "expected string"))
    [] option = "concurrency" ->
         IF value.t = "int" THEN PutConcurrency(c, value.v[1])
         ELSE Fail(c, Errorf(option, "expected integer"))
    [] option = "nsqd" ->
         IF value.t = "string" THEN PutNSQDs(c, <<value.v>>)
         ELSE Fail(c, Errorf(option, "expected string"))
    [] option = "nsqlookupd" ->
         IF value.t = "string" THEN PutLookupds(c, <<value.v>>)
         ELSE Fail(c, Errorf(option, "expected string"))
    [] option = "nsqds" ->
         IF split(value).err = NilErr THEN PutNSQDs(c, split(value).s)
         ELSE Fail(c, Errorf(option, split(value).err.msg))
    [] option = "nsqlookupds" ->
         IF split(value).err = NilErr THEN PutLookupds(c, split(value).s)
         ELSE Fail(c, Errorf(option, split(value).err.msg))
    [] OTHER ->
         IF ConfigAccepts(option, value)
         THEN [c EXCEPT !.config = [o \in DOMAIN c.config \cup {option} |->
                                      IF o = option THEN value ELSE c.config[o]]]
         ELSE Fail(c, ConfigErr(option))

\* The library calls c.Set(option, value) makes.
SetCalls(option, value) ==
  IF option \in OwnOptions THEN <<>>
  ELSE <<[fn |-> "Config.Set", on |-> 0, args |-> <<option, value>>,
          res |-> IF ConfigAccepts(option, value) THEN NilErr ELSE ConfigErr(option)]>>

\* The variables take the fields c.
Store(c) ==
  /\ topic' = c.topic
  /\ channel' = c.channel
  /\ concurrency' = c.concurrency
  /\ nsqds' = c.nsqds
  /\ nsqlookupds' = c.nsqlookupds
  /\ config' = c.config
  /\ err' = c.err

\* NewConsumer(Topic0, Channel0)
Init ==
  /\ topic = Topic0
  /\ channel = Channel0
  /\ concurrency = 1
  /\ nsqds = <<>>
  /\ nsqlookupds = <<>>
  /\ config = <<>>
  /\ logger = DefaultLogger
  /\ err = NilErr
  /\ client = 0
  /\ stopFlag = FALSE
  /\ stopChan = "open"
  /\ pc = "idle"
  /\ calls = <<>>
  /\ ret = NoRet

\* c.Set(option, value)
SetOp ==
  /\ pc = "idle"
  /\ \E option \in Options : \E value \in Inputs(option) :
       /\ Store(Set(Fields, option, value))
       /\ calls' = SetCalls(option, value)
  /\ ret' = NoRet
  /\ UNCHANGED <<logger, lib, pc>>

\* ------------------------------------------------------------------ SetMap

\* The orders in which `for k, v := range options` may visit the keys of m:
\* Go leaves the order of a map range unspecified.
Orders(m) ==
  {o \in [1..Cardinality(DOMAIN m) -> DOMAIN m] :
     \A k \in DOMAIN m : \E i \in DOMAIN o : o[i] = k}

\* c.SetMap(m) visiting the keys in the order o, from the i-th on.
RECURSIVE SetFrom(_, _, _, _)
SetFrom(c, m, o, i) ==
  IF i > Len(o) THEN c ELSE SetFrom(Set(c, o[i], m[o[i]]), m, o, i + 1)

SetMap(c, m, o) == SetFrom(c, m, o, 1)

\* The library calls c.SetMap(m) makes, visiting the keys in the order o.
RECURSIVE SetMapCallsFrom(_, _, _)
SetMapCallsFrom(m, o, i) ==
  IF i > Len(o) THEN <<>>
  ELSE SetCalls(o[i], m[o[i]]) \o SetMapCallsFrom(m, o, i + 1)

\* The mappings with at most MaxMapSize entries that take each option of
\* `options` to one of the values in[option].
MapsOver(options, in) ==
  UNION {{m \in [S -> UNION {in[k] : k \in S}] : \A k \in S : m[k] \in in[k]} :
           S \in {T \in SUBSET options : Cardinality(T) <= MaxMapSize}}

\* The mappings tried in the life of one consumer: a direct address given
\* both ways, and a wrong-typed topic.
FewOptions == {"topic", "nsqd", "nsqds"}
FewInputs(option) ==
  CASE option = "topic" -> {IntV(0)}
    [] option = "nsqd" -> {StrV(<<"a">>)}
    [] option = "nsqds" -> {StrV(<<"a", ",", " ", "b">>)}
FewMaps == MapsOver(FewOptions, [k \in FewOptions |-> FewInputs(k)])

\* The mappings tried when SetMap is studied alone: for each option a
\* well-typed and a wrong-typed value (for bogus, the value the library rejects).
MapOptions == OwnOptions \cup {"bogus"}
MapInputs(option) ==
  CASE option = "topic" -> {StrV(<<"u">>), IntV(0)}
    [] option = "channel" -> {StrV(<<"d">>), StrsV(<<<<"d">>>>)}
    [] option = "concurrency" -> {IntV(4), StrV(<<"4">>)}
    [] option = "nsqd" -> {StrV(<<"a">>), StrsV(<<<<"a">>>>)}
    [] option = "nsqlookupd" -> {StrV(<<"l">>), BoolV}
    [] option = "nsqds" -> {StrV(<<"a", ",", " ", "b">>), IntV(0)}
    [] option = "nsqlookupds" -> {StrsV(<<<<"m">>, <<"l">>>>), BoolV}
    [] option = "bogus" -> {IntV(0)}
AllMaps == MapsOver(MapOptions, [k \in MapOptions |-> MapInputs(k)])

\* c.SetMap(m) for a mapping m of the set maps
SetMapOf(maps) ==
  /\ pc = "idle"
  /\ \E m \in maps : \E o \in Orders(m) :
       /\ Store(SetMap(Fields, m, o))
       /\ calls' = SetMapCallsFrom(m, o, 1)
  /\ ret' = NoRet
  /\ UNCHANGED <<logger, lib, pc>>

\* c.SetMap(options), in the life of one consumer
SetMapOp == SetMapOf(FewMaps)

\* c.SetMap(options), studied alone
SetMapAny == SetMapOf(AllMaps)

\* c.SetLogger(log, level)
SetLoggerOp ==
  /\ pc = "idle"
  /\ \E l \in Loggers : logger' = l
  /\ calls' = <<>>
  /\ ret' = NoRet
  /\ UNCHANGED <<opts, lib, pc>>

\* ------------------------------------------------------------------ Start

\* The call c.client.ConnectToNSQDs(c.nsqds) and its outcome.
ToNSQDs(c, cl, ok) ==
  [fn |-> "ConnectToNSQDs", on |-> cl, args |-> <<c.nsqds>>,
   res |-> IF ok THEN NilErr ELSE NSQDsErr]

\* The call c.client.ConnectToNSQLookupds(c.nsqlookupds) and its outcome.
ToLookupds(c, cl, ok) ==
  [fn |-> "ConnectToNSQLookupds", on |-> cl, args |-> <<c.nsqlookupds>>,
   res |-> IF ok THEN NilErr ELSE LookupdsErr]

\* A connect that goes on to the discovery dial after a failed direct dial.
connectDialsBoth(c, cl, nsqdsOk, lookupdsOk) ==
  LET first == IF Len(c.nsqds) > 0 THEN <<ToNSQDs(c, cl, nsqdsOk)>> ELSE <<>>
      firstErr == IF Len(c.nsqds) > 0 /\ ~nsqdsOk THEN NSQDsErr ELSE NilErr
  IN IF Len(c.nsqds) = 0 /\ Len(c.nsqlookupds) = 0
     THEN [calls |-> <<>>, ret |-> MissingTargetErr]
     ELSE IF Len(c.nsqlookupds) > 0
     THEN [calls |-> Append(first, ToLookupds(c, cl, lookupdsOk)),
           ret |-> IF firstErr # NilErr THEN firstErr
                   ELSE IF lookupdsOk THEN NilErr ELSE LookupdsErr]
     ELSE [calls |-> first, ret |-> firstErr]

\* A connect whose first test reads || for &&.
connectNeedsBoth(c, cl, nsqdsOk, lookupdsOk) ==
  LET first == IF Len(c.nsqds) > 0 THEN <<ToNSQDs(c, cl, nsqdsOk)>> ELSE <<>>
  IN IF Len(c.nsqds) = 0 \/ Len(c.nsqlookupds) = 0
     THEN [calls |-> <<>>, ret |-> MissingTargetErr]
     ELSE IF ~nsqdsOk
     THEN [calls |-> first, ret |-> NSQDsErr]
     ELSE [calls |-> Append(first, ToLookupds(c, cl, lookupdsOk)),
           ret |-> IF lookupdsOk THEN NilErr ELSE LookupdsErr]

\* c.connect() on a client cl; nsqdsOk and lookupdsOk are the outcomes of the
\* two dials, should they be made.  The calls made and the error returned.
connect(c, cl, nsqdsOk, lookupdsOk) ==
  LET first == IF Len(c.nsqds) > 0 THEN <<ToNSQDs(c, cl, nsqdsOk)>> ELSE <<>>
  IN IF Len(c.nsqds) = 0 /\ Len(c.nsqlookupds) = 0
     THEN [calls |-> <<>>, ret |-> MissingTargetErr]
     ELSE IF Len(c.nsqds) > 0 /\ ~nsqdsOk
     THEN [calls |-> first, ret |-> NSQDsErr]
     ELSE IF Len(c.nsqlookupds) > 0
     THEN [calls |-> Append(first, ToLookupds(c, cl, lookupdsOk)),
           ret |-> IF lookupdsOk THEN NilErr ELSE LookupdsErr]
     ELSE [calls |-> first, ret |-> NilErr]

\* The call nsq.NewConsumer(c.topic, c.channel, c.config) and its outcome.
ToNewConsumer(c, ok) ==
  [fn |-> "NewConsumer", on |-> 0, args |-> <<c.topic, c.channel, c.config>>,
   res |-> IF ok THEN NilErr ELSE NewConsumerErr]

\* The calls client.SetLogger(c.log, c.level) and
\* client.AddConcurrentHandlers(handler, c.concurrency) on the client cl.
Attach(c, lg, cl) ==
  <<[fn |-> "SetLogger", on |-> cl, args |-> <<lg>>, res |-> NilErr],
    [fn |-> "AddConcurrentHandlers", on |-> cl, args |-> <<c.concurrency>>,
     res |-> NilErr]>>

\* A Start that looks at c.err only after it has built and connected the client.
StartChecksErrLast(c, lg, cl, newOk, nsqdsOk, lookupdsOk) ==
  LET conn == connect(c, cl + 1, nsqdsOk, lookupdsOk)
  IN IF ~newOk
     THEN [client |-> cl, calls |-> <<ToNewConsumer(c, newOk)>>, ret |-> NewConsumerErr]
     ELSE [client |-> cl + 1,
           calls |-> <<ToNewConsumer(c, newOk)>> \o Attach(c, lg, cl + 1) \o conn.calls,
           ret |-> IF c.err # NilErr THEN c.err ELSE conn.ret]

\* A Start that stores what NewConsumer returned before it tests the error:
\* on a failure that is a nil client.
StartStoresBeforeTest(c, lg, cl, newOk, nsqdsOk, lookupdsOk) ==
  LET conn == connect(c, cl + 1, nsqdsOk, lookupdsOk)
  IN IF c.err # NilErr
     THEN [client |-> cl, calls |-> <<>>, ret |-> c.err]
     ELSE IF ~newOk
     THEN [client |-> 0, calls |-> <<ToNewConsumer(c, newOk)>>, ret |-> NewConsumerErr]
     ELSE [client |-> cl + 1,
           calls |-> <<ToNewConsumer(c, newOk)>> \o Attach(c, lg, cl + 1) \o conn.calls,
           ret |-> conn.ret]

\* c.Start(handler) with fields c, logger lg and client handle cl; newOk is the
\* outcome of nsq.NewConsumer, which returns a client not seen before.  The
\* client handle afterwards, the calls made and the error returned.
Start(c, lg, cl, newOk, nsqdsOk, lookupdsOk) ==
  LET conn == connect(c, cl + 1, nsqdsOk, lookupdsOk)
  IN IF c.err # NilErr
     THEN [client |-> cl, calls |-> <<>>, ret |-> c.err]
     ELSE IF ~newOk
     THEN [client |-> cl, calls |-> <<ToNewConsumer(c, newOk)>>, ret |-> NewConsumerErr]
     ELSE [client |-> cl + 1,
           calls |-> <<ToNewConsumer(c, newOk)>> \o Attach(c, lg, cl + 1) \o conn.calls,
           ret |-> conn.ret]

\* c.Start(handler)
StartOp ==
  /\ pc = "idle"
  /\ \E newOk, nsqdsOk, lookupdsOk \in BOOLEAN :
       LET r == Start(Fields, logger, client, newOk, nsqdsOk, lookupdsOk)
       IN /\ r.client <= MaxClients
          /\ client' = r.client
          /\ IF r.client # client
             THEN stopFlag' = FALSE /\ stopChan' = "open"
             ELSE UNCHANGED <<stopFlag, stopChan>>
          /\ calls' = r.calls
          /\ ret' = r.ret
  /\ UNCHANGED <<opts, logger, pc>>

\* ------------------------------------------------------------------ Stop

\* c.Stop(), first statement: c.client.Stop().  On a nil client the method
\* dereferences nil and the program panics.
StopCall ==
  /\ pc = "idle"
  /\ IF client = 0
     THEN /\ pc' = "panic"
          /\ calls' = <<>>
          /\ UNCHANGED <<stopFlag>>
     ELSE /\ pc' = "Stop_wait"
          /\ calls' = <<[fn |-> "Stop", on |-> client, args |-> <<>>, res |-> NilErr]>>
          /\ stopFlag' = TRUE
  /\ ret' = NoRet
  /\ UNCHANGED <<opts, logger, client, stopChan>>

\* The library, once asked to stop, closes the client's StopChan.
ClientExit ==
  /\ stopFlag
  /\ stopChan = "open"
  /\ stopChan' = "closed"
  /\ UNCHANGED <<opts, logger, client, stopFlag, pc, calls, ret>>

\* A Stop that returns without waiting for the signal.
StopReturnNoWait ==
  /\ pc = "Stop_wait"
  /\ pc' = "idle"
  /\ ret' = NilErr
  /\ UNCHANGED <<opts, logger, lib, calls>>

\* c.Stop(), the rest: <-c.client.StopChan, then return nil.
StopReturn ==
  /\ pc = "Stop_wait"
  /\ stopChan = "closed"
  /\ pc' = "idle"
  /\ ret' = NilErr
  /\ UNCHANGED <<opts, logger, lib, calls>>

Next ==
  SetOp \/ SetMapOp \/ SetLoggerOp \/ StartOp \/ StopCall \/ ClientExit \/ StopReturn

\* The life of one consumer under any interleaving of its calls.
Spec == Init /\ [][Next]_vars

\* SetMap alone, applied again and again to a new consumer.
MapNext == SetMapAny

MapSpec == Init /\ [][MapNext]_vars

\* The same, where a caller blocked on a closed StopChan resumes, and where the
\* library does close the StopChan of a client it was asked to stop.
LiveSpec == Spec /\ WF_vars(StopReturn) /\ WF_vars(ClientExit)

\* ------------------------------------------------------------------ claims

\* The last call on the consumer was Start, and it has returned.
LastWasStart == ret # NoRet /\ (Len(calls) = 0 \/ calls[1].fn = "NewConsumer")

\* The last call on the consumer was a Start whose NewConsumer call succeeded.
Constructed ==
  /\ LastWasStart
  /\ Len(calls) > 0
  /\ calls[1].res = NilErr

\* This step is a call of Start.
StartStep == pc = "idle" /\ pc' = "idle" /\ ret' # NoRet

\* The places in `calls` of the calls of the library function fn.
Made(fn) == {i \in DOMAIN calls : calls[i].fn = fn}

\* The value shapes the option table allows for each recognized option.
ExpectedTypes(option) ==
  CASE option \in {"topic", "channel", "nsqd", "nsqlookupd"} -> {"string"}
    [] option = "concurrency" -> {"int"}
    [] option \in {"nsqds", "nsqlookupds"} -> {"string", "[]string"}

WrongTyped(option, value) ==
  option \in OwnOptions /\ value.t \notin ExpectedTypes(option)

\* Set(option, value) triggers a configuration error.
Failing(option, value) ==
  IF option \in OwnOptions THEN WrongTyped(option, value)
  ELSE ~ConfigAccepts(option, value)

\* Every outcome the library may give the three calls of Start.
Outcomes == BOOLEAN \X BOOLEAN \X BOOLEAN

\* ------------------------------------------------------------------ C1

C2_DeferredErrorStopsStart ==
  /\ [](LastWasStart /\ err # NilErr => ret = err /\ Len(calls) = 0)
  /\ [][StartStep /\ err # NilErr =>
          /\ client' = client
          /\ calls' = <<>>
          /\ ret' = err]_vars
  /\ [](client = 0 /\ LastWasStart => err = NilErr \/ Len(calls) = 0)
  /\ [][opts' # opts => ret' = NoRet /\ pc' = "idle"]_vars

\* Start has returned the deferred error with addresses configured and no
\* client built.
C2_Witness ==
  /\ LastWasStart
  /\ err # NilErr
  /\ ret = err
  /\ client = 0
  /\ nsqds # <<>>
  /\ nsqlookupds # <<>>

\* ------------------------------------------------------------------ C3

SetMapResults(m) == {SetMap(Fields, m, o) : o \in Orders(m)}

\* C4, as stated: whatever the mapping, every order of the range leaves the
\* same fields: a step that SetMap(m) can take in one order is the step it
\* takes in every order.
C4_OrderIndependent ==
  [][\A m \in AllMaps : \A o1 \in Orders(m) :
       Fields' = SetMap(Fields, m, o1) =>
         \A o2 \in Orders(m) : SetMap(Fields, m, o2) = Fields']_vars

\* Two entries of m that are both accepted and write the same address list.
SharedList(m) ==
  \E p \in {{"nsqd", "nsqds"}, {"nsqlookupd", "nsqlookupds"}} :
    /\ p \subseteq DOMAIN m
    /\ \A k \in p : ~Failing(k, m[k])

\* C4, amended: every order of the range leaves the same fields provided the
\* mapping holds at most one entry with a rejected value and does not hold
\* two accepted entries for the same address list (nsqd with nsqds, or
\* nsqlookupd with nsqlookupds).
C4_OrderIndependentUnlessShared ==
  \A m \in AllMaps :
    (Cardinality({k \in DOMAIN m : Failing(k, m[k])}) <= 1 /\ ~SharedList(m))
      => Cardinality(SetMapResults(m)) = 1

\* A SetMap with one rejected entry and one accepted entry has been applied.
C4_Witness ==
  /\ err = Errorf("topic", "expected string")
  /\ nsqlookupds = <<<<"m">>, <<"l">>>>
  /\ topic = Topic0
  /\ nsqds = <<>>
  /\ channel = Channel0
  /\ concurrency = 1

\* ------------------------------------------------------------------ C5

\* C5: Start dials the discovery addresses only after a dial of the direct
\* addresses (when there are any) has returned without error; a failed direct
\* dial is the last call Start makes, and Start returns its error.
C5_DirectBeforeDiscovery ==
  /\ \A j \in Made("ConnectToNSQLookupds") :
       nsqds # <<>> =>
         \E i \in Made("ConnectToNSQDs") : i < j /\ calls[i].res = NilErr
  /\ \A i \in Made("ConnectToNSQDs") :
       calls[i].res # NilErr =>
         /\ Made("ConnectToNSQLookupds") = {}
         /\ i = Len(calls)
         /\ ret = calls[i].res

\* The direct dial failed while discovery addresses were configured.
C5_Witness ==
  /\ LastWasStart
  /\ nsqlookupds # <<>>
  /\ \E i \in Made("ConnectToNSQDs") : calls[i].res # NilErr
  /\ ret = NSQDsErr

\* ------------------------------------------------------------------ C6

\* C6: a Start that built the client with both address lists empty returns the
\* missing-target error and dials nothing; and the missing-target error is
\* returned only with both lists empty.
C6_MissingTarget ==
  /\ (Constructed /\ nsqds = <<>> /\ nsqlookupds = <<>>) =>
       /\ ret = MissingTargetErr
       /\ Made("ConnectToNSQDs") = {}
       /\ Made("ConnectToNSQLookupds") = {}
  /\ ret = MissingTargetErr =>
       /\ Constructed
       /\ nsqds = <<>>
       /\ nsqlookupds = <<>>

\* Start has returned the missing-target error.
C6_Witness ==
  /\ Constructed
  /\ ret = MissingTargetErr
  /\ Len(calls) = 3

\* ------------------------------------------------------------------ C7

\* C7, as stated: over any sequence of calls the client handle is assigned at
\* most once.
C7_ClientAssignedAtMostOnce == [][client # 0 => client' = client]_vars

\* C7, amended: the client handle is nil after construction and changes only
\* in a Start whose NewConsumer call succeeded, to the client that call
\* returned; a Start that returns the deferred error, or whose NewConsumer
\* fails, leaves it as it was.  Every Start that builds a client assigns the
\* handle again: it is assigned once per such Start, not once per consumer.
C7_ClientSetByEachConstruction ==
  /\ client = 0
  /\ [][client' # client =>
          /\ StartStep
          /\ err = NilErr
          /\ Constructed'
          /\ client' # 0
          /\ calls'[2].on = client']_vars
  /\ [][StartStep /\ Constructed' => client' # client]_vars

\* A second Start has built a second client and stored it.
C7_Witness ==
  /\ Constructed
  /\ client = 2
  /\ calls[2].on = 2

\* ------------------------------------------------------------------ C8

\* C8, as stated: c.concurrency, and the value given to AddConcurrentHandlers,
\* is at least 1 in every state.
C8_ConcurrencyAtLeastOne ==
  /\ concurrency >= 1
  /\ \A i \in Made("AddConcurrentHandlers") : calls[i].args[1] >= 1

\* C8, amended: c.concurrency is 1 after construction and afterwards the
\* integer of the last Set("concurrency", n), taken as given: 0 and negative
\* values are stored, a wrong-typed value and every other option leave it
\* alone; Start gives AddConcurrentHandlers the value held.
C8_ConcurrencyAsGiven ==
  /\ concurrency \in
       {1} \cup {v.v[1] : v \in {w \in Inputs("concurrency") : w.t = "int"}}
  /\ \A o \in Options : \A v \in Inputs(o) :
       Set(Fields, o, v).concurrency =
         IF o = "concurrency" /\ v.t = "int" THEN v.v[1] ELSE concurrency
  /\ \A i \in Made("AddConcurrentHandlers") : calls[i].args = <<concurrency>>

\* Start registered the handler with a concurrency below 1.
C8_Witness ==
  /\ Constructed
  /\ concurrency < 1
  /\ Made("AddConcurrentHandlers") # {}

\* ------------------------------------------------------------------ C9

\* The calls of a Start that succeeds, from the fields held.
SuccessfulCalls ==
  <<[fn |-> "NewConsumer", on |-> 0, args |-> <<topic, channel, config>>, res |-> NilErr],
    [fn |-> "SetLogger", on |-> client, args |-> <<logger>>, res |-> NilErr],
    [fn |-> "AddConcurrentHandlers", on |-> client, args |-> <<concurrency>>,
     res |-> NilErr]>>
  \o (IF nsqds # <<>>
      THEN <<[fn |-> "ConnectToNSQDs", on |-> client, args |-> <<nsqds>>,
              res |-> NilErr]>>
      ELSE <<>>)
  \o (IF nsqlookupds # <<>>
      THEN <<[fn |-> "ConnectToNSQLookupds", on |-> client, args |-> <<nsqlookupds>>,
              res |-> NilErr]>>
      ELSE <<>>)

\* C9: a Start with no deferred error whose NewConsumer and dials succeed (at
\* least one address list being non-empty, so that it dials) makes exactly
\* NewConsumer(topic, channel), SetLogger, AddConcurrentHandlers(concurrency),
\* then ConnectToNSQDs(whole list) iff that list is non-empty, then
\* ConnectToNSQLookupds(whole list) iff that list is non-empty, in this order,
\* and returns nil; and nsqd / nsqds replace the direct list, never append.
C9_SuccessfulStartCalls ==
  /\ (LastWasStart /\ ret = NilErr) => calls = SuccessfulCalls
  /\ (/\ Constructed
      /\ \A i \in DOMAIN calls : calls[i].res = NilErr
      /\ nsqds # <<>> \/ nsqlookupds # <<>>) => ret = NilErr
  /\ Set(Fields, "nsqd", StrV(<<"a">>)).nsqds = <<<<"a">>>>
  /\ Set(Fields, "nsqds", StrV(<<"a", ",", " ", "b">>)).nsqds = <<<<"a">>, <<"b">>>>
  /\ Set(Fields, "nsqlookupd", StrV(<<"l">>)).nsqlookupds = <<<<"l">>>>
  /\ Set(Fields, "nsqlookupds", StrsV(<<<<"m">>, <<"l">>>>)).nsqlookupds
       = <<<<"m">>, <<"l">>>>

\* Start has succeeded with both lists configured, the direct list written
\* twice: all five calls were made.
C9_Witness ==
  /\ LastWasStart
  /\ ret = NilErr
  /\ Len(calls) = 5
  /\ nsqds = <<<<"a">>, <<"b">>>>
  /\ concurrency = 4

\* ------------------------------------------------------------------ C10

\* The last call was c.Stop() on a constructed client, and it has not returned.
InStop == pc = "Stop_wait"

\* C10: Stop on a constructed client first asks the client to stop (the only
\* call it makes), returns only once the client's StopChan is closed, returns
\* nil, and does return when the client closes the StopChan.
C10_StopWaitsForSignal ==
  /\ [](InStop => /\ client # 0
                  /\ stopFlag
                  /\ Len(calls) = 1
                  /\ calls[1].fn = "Stop"
                  /\ calls[1].on = client
                  /\ ret = NoRet)
  /\ [][InStop /\ ~InStop' => stopChan = "closed" /\ pc' = "idle" /\ ret' = NilErr]_vars
  /\ (InStop ~> (pc = "idle" /\ ret = NilErr /\ stopChan = "closed"))

\* Stop has returned nil after the client's signal.
C10_Witness ==
  /\ pc = "idle"
  /\ Len(calls) = 1
  /\ calls[1].fn = "Stop"
  /\ ret = NilErr
  /\ stopChan = "closed"

====
